---- MODULE Spec2Model ----
(***************************************************************************)
(* pyunitelway: UNI-TELWAY slave client.                                   *)
(*                                                                         *)
(* The module models                                                       *)
(*   - the byte utilities of utils.py (BCC, DLE stuffing and unstuffing,   *)
(*     the sub-list scan, the length walk),                                *)
(*   - the frame encoder of client.py and the decoder of conversion.py,    *)
(*   - the request/response engine of client.py (run_unite, the wait for   *)
(*     the poll token, the wait for the response, the re-send on timeout)  *)
(*     running against a transport that delivers an inbound byte stream    *)
(*     in reads of arbitrary size.                                         *)
(*                                                                         *)
(* Python lists are sequences; list indices in the definitions are the     *)
(* 0-based indices of the source (At, Slice, Insert, Pop translate them).  *)
(* A Python exception is a result record whose err field names the         *)
(* exception class.                                                        *)
(***************************************************************************)
EXTENDS Integers, Sequences, FiniteSets, TLC

VARIABLES
    op,         \* the operation of the client that was called, its arguments
    client,     \* UnitelwayClient fields set by __init__
    socket,     \* state of client.socket: "open" or "closed"
    query,      \* run_unite argument: the UNI-TE request bytes
    timeout,    \* run_unite argument: the timeout
    inbound,    \* the bytes the peer sends during the call, not yet read
    eof,        \* the peer has closed its side
    heard,      \* history: the bytes read since the last write (or the call)
    sent,       \* history: the frames written to the transport, in order
    now,        \* time.time()
    start,      \* local start of _wait_unite_response
    buf,        \* local buf of is_my_turn_to_talk / _wait_unite_response
    dle_stx_idx,\* local dle_stx_idx of _wait_unite_response
    r,          \* local r of _unite_query_until_response / run_unite
    result,     \* what the call returned or raised
    pc          \* position of the call

vars == <<op, client, socket, query, timeout, inbound, eof, heard, sent, now,
          start, buf, dle_stx_idx, r, result, pc>>

(***************************************************************************)
(* Framing bytes (constants.py).                                           *)
(***************************************************************************)
DLE == 16
STX == 2
ENQ == 5

\* X-WAY type byte of a refused message, UNI-TE code of a failed request.
XWAY_REFUSED == 34
UNITE_FAILED == 253

(***************************************************************************)
(* Bounds of the model.                                                    *)
(***************************************************************************)
MaxHead == 3            \* bytes of a UNI-TE payload that vary freely
MaxPad == 9             \* most filler bytes that follow them
MaxTokens == 4          \* longest inbound stream, in tokens
MaxTime == 1            \* last value of the clock
MaxSends == 3           \* most transmissions of one run_unite call
MaxExtra == 1           \* most bytes received after a frame (codec)

(***************************************************************************)
(* Python list primitives.                                                 *)
(***************************************************************************)
None == <<"None">>

At(s, i) == s[i + 1]

Min(a, b) == IF a < b THEN a ELSE b

\* s[a:b] for 0 <= a, 0 <= b
Slice(s, a, b) == SubSeq(s, a + 1, Min(b, Len(s)))

\* s[a:]
From(s, a) == SubSeq(s, a + 1, Len(s))

\* s[:-1]
ButLast(s) == SubSeq(s, 1, Len(s) - 1)

\* s.insert(i, c) for 0 <= i <= len(s)
Insert(s, i, c) == SubSeq(s, 1, i) \o <<c>> \o SubSeq(s, i + 1, Len(s))

\* s.pop(i) for 0 <= i < len(s): the list after the pop
Pop(s, i) == SubSeq(s, 1, i) \o SubSeq(s, i + 2, Len(s))

RECURSIVE BitAnd(_, _)
BitAnd(a, b) ==
    IF a = 0 \/ b = 0 THEN 0
    ELSE (a % 2) * (b % 2) + 2 * BitAnd(a \div 2, b \div 2)

RECURSIVE Sum(_)
Sum(s) == IF s = <<>> THEN 0 ELSE s[1] + Sum(Tail(s))

(***************************************************************************)
(* Results of a call: a value, or a raised exception.                      *)
(***************************************************************************)
NoResult == [err |-> "pending", value |-> <<>>, args |-> <<>>]
Return(v) == [err |-> "none", value |-> v, args |-> <<>>]
Raise(e, a) == [err |-> e, value |-> <<>>, args |-> a]

(***************************************************************************)
(* errors.py.  UnitelwayError.__init__(self, message) takes one argument;  *)
(* BadUnitelwayChecksum.__init__ calls super().__init__(self, f"...")      *)
(* with two, so constructing the exception raises TypeError.               *)
(***************************************************************************)
UnitelwayError(cls, nargs, a) ==
    IF nargs = 1 THEN Raise(cls, a) ELSE Raise("TypeError", <<>>)

BadUnitelwayChecksum(expected, got) ==
    UnitelwayError("BadUnitelwayChecksum", 2, <<expected, got>>)

RefusedUnitelwayMessage == UnitelwayError("RefusedUnitelwayMessage", 1, <<>>)

UniteRequestFailed == UnitelwayError("UniteRequestFailed", 1, <<>>)

(***************************************************************************)
(* utils.py                                                                *)
(***************************************************************************)
\* Mutant of compute_bcc: the sum is taken modulo 128.
compute_bcc_Mod128(unitelway_bytes) == Sum(unitelway_bytes) % 128

compute_bcc(unitelway_bytes) == Sum(unitelway_bytes) % 256

\* An empty response makes response[-1] raise; callers test Len first.
check_unitelway(response) ==
    compute_bcc(ButLast(response)) = response[Len(response)]

\* Inner while loop of sublist_in_list: <<j, sub_i, broke>> when it ends.
RECURSIVE sublist_inner(_, _, _, _)
sublist_inner(list, sublist, j, sub_i) ==
    IF j < Len(list) /\ sub_i < Len(sublist)
    THEN IF At(list, j) # At(sublist, sub_i)
         THEN <<j, sub_i, TRUE>>
         ELSE sublist_inner(list, sublist, j + 1, sub_i + 1)
    ELSE <<j, sub_i, FALSE>>

\* Outer while loop of sublist_in_list from index i: <<found, index>>.
RECURSIVE sublist_outer(_, _, _)
sublist_outer(list, sublist, i) ==
    IF i < Len(list)
    THEN IF At(list, i) = At(sublist, 0)
         THEN LET inner == sublist_inner(list, sublist, i, 0)
                  i2 == IF inner[3] THEN inner[1] ELSE i
              IN  IF inner[2] >= Len(sublist)
                  THEN <<TRUE, i2>>
                  ELSE sublist_outer(list, sublist, i2 + 1)
         ELSE sublist_outer(list, sublist, i + 1)
    ELSE <<FALSE, -1>>

sublist_in_list(list, sublist) == sublist_outer(list, sublist, 0)

\* The test of the length walk: unitelway[i] == DLE & unitelway[i+1] == DLE.
\* Python parses it as the chain a == (DLE & b) == DLE.
IsDuplicatedDle(a, b) == a = BitAnd(DLE, b) /\ BitAnd(DLE, b) = DLE

\* The while loop of compute_response_length; -1 stands for IndexError.
RECURSIVE response_length_loop(_, _, _, _)
response_length_loop(unitelway, i, len_count, length) ==
    IF len_count <= length
    THEN IF i + 1 >= Len(unitelway)
         THEN -1
         ELSE IF IsDuplicatedDle(At(unitelway, i), At(unitelway, i + 1))
              THEN response_length_loop(unitelway, i + 1, len_count, length)
              ELSE response_length_loop(unitelway, i + 1, len_count + 1, length)
    ELSE i + 1

compute_response_length(unitelway) ==
    IF Len(unitelway) < 4 THEN -1
    ELSE response_length_loop(unitelway, 4, 1, At(unitelway, 3))

\* Mutant of duplicate_dle: nothing is duplicated.
duplicate_dle_Never(unitelway, i) == unitelway

RECURSIVE duplicate_dle(_, _)
duplicate_dle(unitelway, i) ==
    IF i < Len(unitelway)
    THEN IF At(unitelway, i) = DLE
         THEN duplicate_dle(Insert(unitelway, i, DLE), i + 2)
         ELSE duplicate_dle(unitelway, i + 1)
    ELSE unitelway

\* The while loop of delete_dle.
RECURSIVE delete_dle_loop(_, _, _)
delete_dle_loop(unitelway, i, res) ==
    IF i < Len(unitelway)
    THEN IF At(unitelway, i) # DLE
         THEN delete_dle_loop(unitelway, i + 1, Append(res, At(unitelway, i)))
         ELSE IF i + 1 < Len(unitelway)
              THEN delete_dle_loop(unitelway, i + 2,
                                   Append(res, At(unitelway, i + 1)))
              ELSE delete_dle_loop(unitelway, i + 2, res)
    ELSE res

\* Mutant of delete_dle: the scan starts at the first byte.
delete_dle_FromStart(unitelway) == delete_dle_loop(unitelway, 0, <<>>)

delete_dle(unitelway) == delete_dle_loop(unitelway, 3, Slice(unitelway, 0, 3))

(***************************************************************************)
(* client.py: the frame encoder.                                           *)
(***************************************************************************)
_unite_to_xway(self, unite_bytes) == self.xway_start \o unite_bytes

_xway_to_unitelway(self, xway_bytes) ==
    LET length == Len(xway_bytes)
        head == self.unitelway_start
                \o (IF length = DLE THEN <<DLE>> ELSE <<>>)
                \o <<length>>
        unitelway_data_start == Len(head)
        stuffed == duplicate_dle(head \o xway_bytes, unitelway_data_start)
    IN  Append(stuffed, compute_bcc(stuffed))

_unite_to_unitelway(self, unite_bytes) ==
    _xway_to_unitelway(self, _unite_to_xway(self, unite_bytes))

(***************************************************************************)
(* conversion.py: the frame decoder.                                       *)
(***************************************************************************)
\* keep_response_bytes; <<-1>> stands for the IndexError of the length walk.
keep_response_bytes(response) ==
    LET length == compute_response_length(response)
    IN  IF length = -1 THEN <<-1>> ELSE Slice(response, 0, length)

\* unwrap_unitelway_response; <<-1>> stands for IndexError (without_dle[3]).
unwrap_unitelway_response(response) ==
    LET without_dle == delete_dle(response)
    IN  IF Len(without_dle) < 4 THEN <<-1>>
        ELSE Slice(without_dle, 0, 4 + At(without_dle, 3) + 1)

\* response[4:-1]
unitelway_to_xway(response) == Slice(response, 4, Len(response) - 1)

xway_to_unite(response) ==
    IF Len(response) = 0 THEN Raise("IndexError", <<>>)
    ELSE IF At(response, 0) = XWAY_REFUSED THEN RefusedUnitelwayMessage
    ELSE Return(From(response, 6))

unwrap_unite_response(response) ==
    LET kept == keep_response_bytes(response)
    IN  IF kept = <<-1>> THEN Raise("IndexError", <<>>)
        ELSE IF ~check_unitelway(kept)
        THEN BadUnitelwayChecksum(kept[Len(kept)], compute_bcc(ButLast(kept)))
        ELSE LET unitelway_bytes == unwrap_unitelway_response(kept)
                 xway_bytes == unitelway_to_xway(unitelway_bytes)
                 unite == xway_to_unite(xway_bytes)
             IN  IF unitelway_bytes = <<-1>> THEN Raise("IndexError", <<>>)
                 ELSE IF unite.err # "none" THEN unite
                 ELSE IF Len(unite.value) = 0 THEN Raise("IndexError", <<>>)
                 ELSE IF At(unite.value, 0) = UNITE_FAILED
                      THEN UniteRequestFailed
                 ELSE Return(unite.value)

(***************************************************************************)
(* conversion.py: parsing of the READ_XXX_BIT responses.  A Python dict is *)
(* a function on its keys, a tuple is a sequence.                          *)
(***************************************************************************)
\* (byte & (1 << i)) != 0
BitSet(byte, i) == BitAnd(byte, 2 ^ i) # 0

\* The dict built by the loop of _parse_read_bit_bytes from start_address.
ReadBitDict(start_address, values_bits, has_forcing, forcing_bits) ==
    [k \in start_address..(start_address + 7) |->
        IF has_forcing
        THEN <<BitSet(values_bits, k - start_address),
               BitSet(forcing_bits, k - start_address)>>
        ELSE BitSet(values_bits, k - start_address)]

\* Mutant of _parse_read_bit_bytes: the dict starts at address itself.
_parse_read_bit_bytes_FromAddress(address, values_bits, has_forcing, forcing_bits) ==
    LET res == ReadBitDict(address, values_bits, has_forcing, forcing_bits)
    IN  IF has_forcing
        THEN <<res[address][1], res[address][2], res>>
        ELSE <<res[address], res>>

_parse_read_bit_bytes(address, values_bits, has_forcing, forcing_bits) ==
    LET offset == address % 8
        start_address == address - offset
        res == ReadBitDict(start_address, values_bits, has_forcing,
                           forcing_bits)
    IN  IF has_forcing
        THEN <<res[address][1], res[address][2], res>>
        ELSE <<res[address], res>>

\* parse_read_bit_result; bytes[0] and bytes[1] raise IndexError when the
\* response is too short.
parse_read_bit_result(address, bytes, has_forcing) ==
    IF has_forcing
    THEN IF Len(bytes) < 2 THEN Raise("IndexError", <<>>)
         ELSE Return(_parse_read_bit_bytes(address, At(bytes, 0), has_forcing,
                                           At(bytes, 1)))
    ELSE IF Len(bytes) < 1 THEN Raise("IndexError", <<>>)
         ELSE Return(_parse_read_bit_bytes(address, At(bytes, 0), has_forcing,
                                           0))

\* parse_read_bits_result; an index past the end of bytes is IndexError.
parse_read_bits_result(expected_obj_type, start_address, number, bytes, has_forcing) ==
    IF Len(bytes) = 0 THEN Raise("IndexError", <<>>)
    ELSE IF At(bytes, 0) # expected_obj_type
    THEN IF Len(bytes) < 2 THEN Raise("IndexError", <<>>)
         ELSE Raise("UnexpectedObjectTypeResponse",
                    <<expected_obj_type, At(bytes, 1)>>)
    ELSE LET data == From(bytes, 1)
             bytes_number == number \div 8
             last == (number - 1) \div 8
                     + (IF has_forcing THEN bytes_number ELSE 0)
         IN  IF number > 0 /\ last >= Len(data)
             THEN Raise("IndexError", <<>>)
             ELSE Return(
                 [k \in start_address..(start_address + number - 1) |->
                     LET i == k - start_address
                         value == BitSet(At(data, i \div 8), i % 8)
                     IN  IF has_forcing
                         THEN <<value,
                                BitSet(At(data, i \div 8 + bytes_number),
                                       i % 8)>>
                         ELSE value])

\* int.from_bytes(bytes, byteorder="little", signed=False)
RECURSIVE FromBytesLittle(_)
FromBytesLittle(bytes) ==
    IF bytes = <<>> THEN 0 ELSE bytes[1] + 256 * FromBytesLittle(Tail(bytes))

\* parse_read_word_result: int.from_bytes(bytes, "little", signed=True);
\* the last byte carries the sign.
RECURSIVE parse_read_word_result(_)
parse_read_word_result(bytes) ==
    IF bytes = <<>> THEN 0
    ELSE IF Len(bytes) = 1
    THEN IF bytes[1] >= 128 THEN bytes[1] - 256 ELSE bytes[1]
    ELSE bytes[1] + 256 * parse_read_word_result(Tail(bytes))

\* split_list_n(list, n): sub-sequences of n elements, the last one shorter
\* when len(list) is not a multiple of n.
RECURSIVE split_list_n(_, _)
split_list_n(list, n) ==
    IF list = <<>> THEN <<>>
    ELSE <<Slice(list, 0, n)>> \o split_list_n(From(list, n), n)

\* UnexpectedObjectTypeResponse(expected, got)
UnexpectedObjectTypeResponse(expected, got) ==
    Raise("UnexpectedObjectTypeResponse", <<expected, got>>)

\* parse_read_words_result; an index past the end of bytes is IndexError.
parse_read_words_result(expected_obj_type, obj_size, bytes) ==
    IF Len(bytes) = 0 THEN Raise("IndexError", <<>>)
    ELSE IF At(bytes, 0) # expected_obj_type
    THEN IF Len(bytes) < 2 THEN Raise("IndexError", <<>>)
         ELSE UnexpectedObjectTypeResponse(expected_obj_type, At(bytes, 1))
    ELSE LET splitted == split_list_n(From(bytes, 1), obj_size)
         IN  Return([i \in 1..Len(splitted) |->
                        parse_read_word_result(splitted[i])])

\* _parse_io_bit_result: bytes[0] values follow the length byte, bit 0 of
\* each is the value of one address.
_parse_io_bit_result(start_address, bytes) ==
    IF Len(bytes) = 0 \/ Len(bytes) - 1 < At(bytes, 0)
    THEN Raise("IndexError", <<>>)
    ELSE Return([k \in start_address..(start_address + At(bytes, 0) - 1) |->
                    BitAnd(At(bytes, k - start_address + 1), 1) # 0])

\* _parse_io_words_result: every pair of bytes of bytes is one word.
_parse_io_words_result(start_address, bytes) ==
    LET splitted == split_list_n(bytes, 2)
    IN  [k \in start_address..(start_address + Len(splitted) - 1) |->
            parse_read_word_result(splitted[k - start_address + 1])]

\* _parse_operation_zone: the dictionary holds "I" and "Q", and "IW" / "QW"
\* when their length is positive.
_parse_operation_zone(start_address, bytes) ==
    IF Len(bytes) = 0 THEN Raise("IndexError", <<>>)
    ELSE
    LET bytes1 == From(bytes, 1)
        i_bits == _parse_io_bit_result(start_address, bytes1)
    IN  IF i_bits.err # "none" THEN i_bits
        ELSE
        LET bytes2 == From(bytes1, 1 + At(bytes1, 0))
            q_bits == _parse_io_bit_result(start_address, bytes2)
        IN  IF q_bits.err # "none" THEN q_bits
            ELSE
            LET bytes3 == From(bytes2, 1 + At(bytes2, 0))
                iw_length == FromBytesLittle(Slice(bytes3, 0, 2))
                bytes4 == From(bytes3, 2)
                qw_length == FromBytesLittle(Slice(bytes4, 0, 2))
                bytes5 == From(bytes4, 2)
            IN  Return(
                  [section \in {"I", "Q"}
                               \cup (IF iw_length > 0 THEN {"IW"} ELSE {})
                               \cup (IF qw_length > 0 THEN {"QW"} ELSE {}) |->
                     CASE section = "I" -> i_bits.value
                       [] section = "Q" -> q_bits.value
                       [] section = "IW" ->
                            _parse_io_words_result(start_address, bytes4)
                       [] section = "QW" ->
                            _parse_io_words_result(start_address, bytes5)])

\* parse_write_result(response), response with its UNI-TE response code.
parse_write_result(response) == At(response, 0) = 254

(***************************************************************************)
(* Request codes and the table of fixed response codes (constants.py), and *)
(* utils.py: the response code of a request.                               *)
(***************************************************************************)
READ_INTERNAL_WORD == 4
WRITE_INTERNAL_WORD == 20
READ_OBJECTS == 54
READ_IO_CHANNEL == 67
WRITE_IO_CHANNEL == 72

\* The requests answered by a fixed code: 0xFE for a write.
RESPONSE_CODES == [code \in {WRITE_INTERNAL_WORD} |-> 254]

\* Mutant: the table of fixed response codes is ignored.
get_response_code_NoTable(query_code) == query_code + 48

get_response_code(query_code) ==
    IF query_code \in DOMAIN RESPONSE_CODES
    THEN RESPONSE_CODES[query_code]
    ELSE query_code + 48

\* Mutant: every response code is taken as valid.
is_valid_response_code_Any(query_code, resp_code) == TRUE

is_valid_response_code(query_code, resp_code) ==
    resp_code = UNITE_FAILED \/ resp_code = get_response_code(query_code)

\* UnexpectedUniteResponse(expected, got)
UnexpectedUniteResponse(expected, got) ==
    Raise("UnexpectedUniteResponse", <<expected, got>>)

\* int.to_bytes(2, byteorder="little", signed=False) for 0 <= n < 65536
ToBytes2(n) == <<n % 256, n \div 256>>

\* Mutant: the magnitude of the value is written, the sign is lost.
ToBytes2Signed_Magnitude(v) == ToBytes2(IF v < 0 THEN -v ELSE v)

\* int.to_bytes(2, byteorder="little", signed=True) for -32768 <= v < 32768
ToBytes2Signed(v) == ToBytes2(IF v < 0 THEN v + 65536 ELSE v)

_build_addressing_query(self, query_code, address) ==
    <<query_code, self.category_code>> \o ToBytes2(address)

(***************************************************************************)
(* Inputs.                                                                 *)
(***************************************************************************)
\* Link addresses: an ordinary one, and one equal to DLE.
LinkAddresses == {3, DLE}

\* UnitelwayClient.__init__
NewClient(slave_address, category_code, xway_network, xway_station, xway_gate, xway_ext1, xway_ext2, vpn) ==
    [unitelway_start |-> <<DLE, STX, slave_address>>,
     xway_start |-> <<32, xway_network, xway_station, xway_gate,
                      xway_ext1, xway_ext2>>,
     category_code |-> category_code,
     link_address |-> slave_address,
     VPN_Mode |-> vpn]

\* Payload bytes: DLE, a byte with bit 4 set, a byte with bit 4 clear, 0xFD.
PayloadBytes == {DLE, 48, 163, UNITE_FAILED}

SeqsUpTo(S, n) == UNION {[1..k -> S] : k \in 0..n}

\* n filler bytes (0xA3: not DLE, bit 4 clear).
Pad(n) == [i \in 1..n |-> 163]

\* UNI-TE payloads: up to MaxHead free bytes, then up to MaxPad fillers.
Payloads ==
    {h \o Pad(n) : h \in SeqsUpTo(PayloadBytes, MaxHead), n \in 0..MaxPad}
    \ {<<>>}

(***************************************************************************)
(* Codec specification: a payload is encoded, the frame comes back from    *)
(* the transport (possibly with a damaged BCC, possibly followed by more   *)
(* received bytes) and is decoded.                                         *)
(***************************************************************************)
\* run_unite (or the codec) called directly, not by an operation.
NoOp == [name |-> "run_unite", args |-> <<>>]

CodecInit ==
    /\ op = NoOp
    /\ client \in {NewClient(a, 0, 0, 0, 0, 0, 0, FALSE) : a \in LinkAddresses}
    /\ query \in Payloads
    /\ socket = "open"
    /\ timeout = 0
    /\ inbound = <<>>
    /\ eof = FALSE
    /\ heard = <<>>
    /\ sent = <<>>
    /\ now = 0
    /\ start = 0
    /\ buf = <<>>
    /\ dle_stx_idx = -1
    /\ r = None
    /\ result = NoResult
    /\ pc = "codec_start"

\* _unite_to_unitelway(query)
CodecBuild ==
    /\ pc = "codec_start"
    /\ sent' = Append(sent, _unite_to_unitelway(client, query))
    /\ pc' = "codec_built"
    /\ UNCHANGED <<op, client, socket, query, timeout, inbound, eof,
                   heard, now, start, buf, dle_stx_idx, r, result>>

\* X-WAY type bytes of a reply: standard (client.py:41), refused.
XwayTypes == {32, XWAY_REFUSED}

\* The frame a peer builds for the UNI-TE bytes unite with the X-WAY type
\* byte type: the frame of the encoder, the type byte apart.
PeerReply(self, type, unite) ==
    _xway_to_unitelway(self, <<type>> \o Tail(_unite_to_xway(self, unite)))

\* The frame is received back, with the X-WAY type the peer gives it:
\* damage is added to its last byte, extra follows it.
CodecReceive ==
    /\ pc = "codec_built"
    /\ \E type \in XwayTypes, damage \in {0, 1},
          extra \in SeqsUpTo({DLE, ENQ}, MaxExtra) :
          LET frame == PeerReply(client, type, query)
              last == (frame[Len(frame)] + damage) % 256
          IN  r' = Append(ButLast(frame), last) \o extra
    /\ pc' = "codec_received"
    /\ UNCHANGED <<op, client, socket, query, timeout, inbound, eof,
                   heard, sent, now, start, buf, dle_stx_idx, result>>

\* unwrap_unite_response(r)
CodecDecode ==
    /\ pc = "codec_received"
    /\ result' = unwrap_unite_response(r)
    /\ pc' = "codec_done"
    /\ UNCHANGED <<op, client, socket, query, timeout, inbound, eof,
                   heard, sent, now, start, buf, dle_stx_idx, r>>

CodecNext == CodecBuild \/ CodecReceive \/ CodecDecode

SpecCodec == CodecInit /\ [][CodecNext]_vars

(***************************************************************************)
(* Bit-response specification: parse_read_bit_result is applied to a bit   *)
(* address and the bytes of a response.                                    *)
(***************************************************************************)
BitAddresses == {0, 5, 8, 13, 255, 256}

\* Value and forcing bytes: no bit, bit 0, bit 6, bit 7, mixed, all bits.
BitBytes == {0, 1, 64, 128, 165, 255}

BitResponses == [1..1 -> BitBytes] \cup [1..2 -> BitBytes]

BitsInit ==
    /\ op \in {[name |-> "parse_read_bit_result", args |-> <<a, b, f>>] :
                a \in BitAddresses, b \in BitResponses, f \in BOOLEAN}
    /\ client = NewClient(3, 0, 0, 0, 0, 0, 0, FALSE)
    /\ query = <<>>
    /\ socket = "open"
    /\ timeout = 0
    /\ inbound = <<>>
    /\ eof = FALSE
    /\ heard = <<>>
    /\ sent = <<>>
    /\ now = 0
    /\ start = 0
    /\ buf = <<>>
    /\ dle_stx_idx = -1
    /\ r = None
    /\ result = NoResult
    /\ pc = "bits_start"

\* parse_read_bit_result(address, bytes, has_forcing)
BitsParse ==
    /\ pc = "bits_start"
    /\ result' = parse_read_bit_result(op.args[1], op.args[2], op.args[3])
    /\ pc' = "bits_done"
    /\ UNCHANGED <<op, client, socket, query, timeout, inbound, eof,
                   heard, sent, now, start, buf, dle_stx_idx, r>>

BitsNext == BitsParse

SpecBits == BitsInit /\ [][BitsNext]_vars

(***************************************************************************)
(* The transport.                                                          *)
(***************************************************************************)
\* Mutant: a closed socket can still be read from and written to.
Usable_Always(s) == TRUE

\* recv and send work on a connected socket object only; after close() they
\* raise OSError (bad file descriptor).
Usable(s) == s = "open"

\* socket.recv(n) on a blocking socket: some non-empty prefix of at most n
\* of the bytes still to come; b'' once the peer has closed; no result
\* (the call blocks) while nothing has arrived and the peer has not closed.
Recv(n) ==
    IF inbound # <<>>
    THEN {SubSeq(inbound, 1, k) : k \in 1..Min(n, Len(inbound))}
    ELSE IF eof THEN {<<>>} ELSE {}

\* The effect of a recv that returned data on the transport and its history.
Received(data) ==
    /\ inbound' = SubSeq(inbound, Len(data) + 1, Len(inbound))
    /\ heard' = heard \o data

\* The other stations of the bus the master polls, and one of them.
OtherStations == {7}
OtherAddress == CHOOSE a \in OtherStations : TRUE

\* What the master puts on the line, for a client of link address my.
PollToken(a) == <<DLE, ENQ, a>>
FrameStart(a) == <<DLE, STX, a>>

\* A frame of the master carrying the UNI-TE response unite for station a.
PeerFrame(self, unite) == _unite_to_unitelway(self, unite)

Tokens(self) ==
    { PollToken(OtherAddress),
      PollToken(self.link_address),
      FrameStart(OtherAddress),
      PeerFrame(self, <<254>>) }

RECURSIVE Flatten(_)
Flatten(ss) == IF ss = <<>> THEN <<>> ELSE ss[1] \o Flatten(Tail(ss))

Streams(self) == {Flatten(ts) : ts \in SeqsUpTo(Tokens(self), MaxTokens)}

Timeouts == {0, MaxTime}

(***************************************************************************)
(* client.py: the request/response engine.                                 *)
(***************************************************************************)
Init ==
    /\ op = NoOp
    /\ client \in {NewClient(3, 0, 0, 0, 0, 0, 0, vpn) : vpn \in BOOLEAN}
    /\ socket = "open"
    /\ query = <<4, 0, 10, 0>>
    /\ timeout \in Timeouts
    /\ inbound \in Streams(client)
    /\ eof = FALSE
    /\ heard = <<>>
    /\ sent = <<>>
    /\ now = 0
    /\ start = 0
    /\ buf = <<>>
    /\ dle_stx_idx = -1
    /\ r = None
    /\ result = NoResult
    /\ pc = "call"

\* The address every high-level operation passes to run_unite.
slave_address == At(client.unitelway_start, 2)

\* run_unite is entered; _unite_query_until_response sets r = None.
RunUnite ==
    /\ pc = "call"
    /\ r' = None
    /\ pc' = "loop"
    /\ UNCHANGED <<op, client, socket, query, timeout, inbound, eof,
                   heard, sent, now, start, buf, dle_stx_idx, result>>

\* Mutant of NextAttempt: the turn is awaited in VPN mode too.
NextAttempt_AlwaysGated(self) == "turn"

\* In VPN mode the request is sent at once, else the turn is awaited first.
NextAttempt(self) == IF self.VPN_Mode THEN "send" ELSE "turn"

\* while r is None: a new attempt (is_my_turn_to_talk starts with buf = []).
LoopHead ==
    /\ pc = "loop"
    /\ r = None
    /\ pc' = NextAttempt(client)
    /\ buf' = <<>>
    /\ UNCHANGED <<op, client, socket, query, timeout, inbound, eof,
                   heard, sent, now, start, dle_stx_idx, r, result>>

\* Mutant of TurnFound: the wait for the turn gives up after its first read.
TurnFound_FirstRead(b, address) == TRUE

\* Mutant of TurnFound: the poll of any station gives the turn.
TurnFound_AnyPoll(b, address) == sublist_in_list(b, <<DLE, ENQ>>)[1]

\* The test of is_my_turn_to_talk(address) on its buffer.
TurnFound(b, address) == sublist_in_list(b, <<DLE, ENQ, address>>)[1]

\* One iteration of the loop of is_my_turn_to_talk.
TurnRecv ==
    /\ pc = "turn"
    /\ Usable(socket)
    /\ \E data \in Recv(3) :
          /\ Received(data)
          /\ buf' = buf \o data
          /\ pc' = IF TurnFound(buf', slave_address) THEN "send" ELSE "turn"
    /\ UNCHANGED <<op, client, socket, query, timeout, eof, sent, now,
                   start, dle_stx_idx, r, result>>

\* _unite_query(query), then the first statements of _wait_unite_response.
\* Mutant: the frame is written twice.
_unitelway_query_Twice(written, query_) == Append(Append(written, query_), query_)

\* _unitelway_query: socket.send(bytearray(query)); written holds the
\* frames written so far.
_unitelway_query(written, query_) == Append(written, query_)

\* Mutant: the frame is built in the header list of the client
\* (xway_bytes = self._xway_start instead of the copy).
AfterBuild_InPlace(self, unite_bytes) ==
    [self |-> [self EXCEPT !.xway_start = @ \o unite_bytes],
     unite_bytes |-> unite_bytes]

\* The client and the list unite_bytes after _unite_to_unitelway.  Both
\* _unite_to_xway and _xway_to_unitelway start from a new empty list, copy
\* the header of the client into it element by element and extend the new
\* list; duplicate_dle inserts into the new list.  Neither self nor
\* unite_bytes is assigned or modified.
AfterBuild(self, unite_bytes) == [self |-> self, unite_bytes |-> unite_bytes]

Send ==
    /\ pc = "send"
    /\ Usable(socket)
    /\ Len(sent) < MaxSends
    /\ sent' = _unitelway_query(sent, _unite_to_unitelway(client, query))
    /\ client' = AfterBuild(client, query).self
    /\ query' = AfterBuild(client, query).unite_bytes
    /\ heard' = <<>>
    /\ start' = now
    /\ buf' = <<>>
    /\ pc' = "wait"
    /\ UNCHANGED <<op, socket, timeout, inbound, eof, now, dle_stx_idx, r,
                   result>>

\* for _ in range(3): if index < len(buf): buf.pop(index)
RECURSIVE PopN(_, _, _)
PopN(b, index, n) ==
    IF n = 0 THEN b
    ELSE IF index < Len(b) THEN PopN(Pop(b, index), index, n - 1)
    ELSE PopN(b, index, n - 1)

\* Delete <DLE> <ENQ> <nb>
DeleteEnquiry(b) ==
    LET res == sublist_in_list(b, <<DLE, ENQ>>)
    IN  IF res[1] THEN PopN(b, res[2], 3) ELSE b

\* Mutant of TimedOut: the timeout must be exceeded, not reached.
TimedOut_Strict(self, t0, t1, limit) ==
    self.VPN_Mode = FALSE /\ t1 - t0 > limit

\* Mutant of TimedOut: the timeout applies in VPN mode too.
TimedOut_AnyMode(self, t0, t1, limit) == t1 - t0 >= limit

\* if self.VPN_Mode == False: end = time.time(); if end - start >= timeout
TimedOut(self, t0, t1, limit) == self.VPN_Mode = FALSE /\ t1 - t0 >= limit

\* The end of an iteration of the loop of _wait_unite_response that did
\* not break: return None on timeout, else loop.
EndOfIteration ==
    IF TimedOut(client, start, now, timeout)
    THEN /\ r' = None
         /\ pc' = "loop"
    ELSE /\ r' = r
         /\ pc' = "wait"

\* An iteration of the loop of _wait_unite_response up to the test of
\* dle_stx_ok, and to its end when <DLE> <STX> is not in the buffer.
WaitRecv ==
    /\ pc = "wait"
    /\ Usable(socket)
    /\ \E data \in Recv(3) :
          LET tmp == sublist_in_list(DeleteEnquiry(buf \o data), <<DLE, STX>>)
          IN  /\ Received(data)
              /\ buf' = DeleteEnquiry(buf \o data)
              /\ dle_stx_idx' = tmp[2]
              /\ IF tmp[1]
                 THEN /\ pc' = "wait_addr"
                      /\ r' = r
                 ELSE EndOfIteration
    /\ UNCHANGED <<op, client, socket, query, timeout, eof, sent, now,
                   start, result>>

\* Mutant of IsMyFrame: a frame is taken as the response to the first
\* transmission only.
IsMyFrame_FirstSendOnly(self, b, idx) ==
    At(b, idx + 2) = self.link_address /\ Len(sent) = 1

\* The link address test: buf[dle_stx_idx + 2] == self.link_address.
IsMyFrame(self, b, idx) == At(b, idx + 2) = self.link_address

\* The rest of the iteration when <DLE> <STX> is in the buffer: recv(1),
\* the test of the link address, the timeout.
WaitAddr ==
    /\ pc = "wait_addr"
    /\ Usable(socket)
    /\ \E data \in Recv(1) :
          /\ Received(data)
          /\ buf' = buf \o data
          /\ IF dle_stx_idx + 2 >= Len(buf')
             THEN /\ result' = Raise("IndexError", <<>>)
                  /\ pc' = "raised"
                  /\ r' = r
             ELSE IF IsMyFrame(client, buf', dle_stx_idx)
             THEN /\ pc' = "tail"
                  /\ r' = r
                  /\ result' = result
             ELSE /\ EndOfIteration
                  /\ result' = result
    /\ UNCHANGED <<op, client, socket, query, timeout, eof, sent, now,
                   start, dle_stx_idx>>

\* After the break: buf = buf[dle_stx_idx:]; recv(256); return buf.  The
\* loop of _unite_query_until_response ends (r is not None) and returns r.
WaitTail ==
    /\ pc = "tail"
    /\ Usable(socket)
    /\ \E data \in Recv(256) :
          /\ Received(data)
          /\ buf' = From(buf, dle_stx_idx) \o data
          /\ r' = buf'
    /\ pc' = "got"
    /\ UNCHANGED <<op, client, socket, query, timeout, eof, sent, now,
                   start, dle_stx_idx, result>>

\* Mutant of disconnect_socket: the socket is left as it is.
disconnect_socket_Noop(s) == s

\* Mutant: closing a closed socket opens it again.
disconnect_socket_Toggle(s) == IF s = "open" THEN "closed" ELSE "open"

\* disconnect_socket: close() of a socket, open or closed, closes it.
disconnect_socket(s) == "closed"

\* Mutant: the buffer is decoded first and the socket closed on success.
CloseThenDecode_DecodeFirst(s, res) == IF res.err = "none" THEN "closed" ELSE s

\* The socket after the last two statements of run_unite: the call of
\* disconnect_socket precedes unwrap_unite_response(r), so it is made
\* whatever outcome res the decoder has.
CloseThenDecode(s, res) == disconnect_socket(s)

\* The end of run_unite: self.disconnect_socket(), then
\* return unwrap_unite_response(r).
\* Mutant: a decode error sends run_unite back to its query loop.
AfterDecode_Retry(res) == IF res.err = "none" THEN "returned" ELSE "loop"

\* run_unite returns what unwrap_unite_response returns and lets what it
\* raises propagate: there is no try/except around it.
AfterDecode(res) == IF res.err = "none" THEN "returned" ELSE "raised"

Finish ==
    /\ pc = "got"
    /\ socket' = CloseThenDecode(socket, unwrap_unite_response(r))
    /\ result' = unwrap_unite_response(r)
    /\ pc' = AfterDecode(result')
    /\ UNCHANGED <<op, client, query, timeout, inbound, eof, heard, sent,
                   now, start, buf, dle_stx_idx, r>>

\* Time passes.  time.time() is read only in _wait_unite_response, so only
\* the time that passes there is followed.
Tick ==
    /\ pc \in {"wait", "wait_addr"}
    /\ now < MaxTime
    /\ now' = now + 1
    /\ UNCHANGED <<op, client, socket, query, timeout, inbound, eof,
                   heard, sent, start, buf, dle_stx_idx, r, result, pc>>

\* The peer closes the connection after the last byte it sent.
PeerClose ==
    /\ pc \notin {"returned", "raised"}
    /\ inbound = <<>>
    /\ eof = FALSE
    /\ eof' = TRUE
    /\ UNCHANGED <<op, client, socket, query, timeout, inbound, heard,
                   sent, now, start, buf, dle_stx_idx, r, result, pc>>

Next ==
    \/ RunUnite
    \/ LoopHead
    \/ TurnRecv
    \/ Send
    \/ WaitRecv
    \/ WaitAddr
    \/ WaitTail
    \/ Finish
    \/ Tick
    \/ PeerClose

Spec == Init /\ [][Next]_vars

(***************************************************************************)
(* client.py: the high-level operations.  An operation builds its UNI-TE   *)
(* request, calls run_unite (pc = "call" .. "returned"/"raised"), checks   *)
(* the response code and parses the response.  An exception of run_unite   *)
(* propagates through the operation unchanged.                             *)
(***************************************************************************)
\* Default value of the timeout parameter of run_unite.
TIMEOUT_SEC == MaxTime

\* Binding of a call run_unite(*positional, text=.., debug=..) to
\* run_unite(self, address, query, timeout=TIMEOUT_SEC, text="", debug=0).
run_unite_call(positional) ==
    IF Len(positional) < 2
    THEN Raise("TypeError", <<>>)
    ELSE Return([address |-> positional[1], query |-> positional[2]])

\* The operation calls run_unite with these positional arguments.
CallRunUnite(positional) ==
    LET call == run_unite_call(positional)
    IN  IF call.err = "none"
        THEN /\ query' = call.value.query
             /\ timeout' = TIMEOUT_SEC
             /\ pc' = "call"
             /\ UNCHANGED result
        ELSE /\ result' = call
             /\ pc' = "raised"
             /\ UNCHANGED <<query, timeout>>

\* The operation ends with outcome res.
OpEnds(res) ==
    /\ result' = res
    /\ pc' = IF res.err = "none" THEN "op_returned" ELSE "raised"
    /\ UNCHANGED <<op, client, socket, query, timeout, inbound, eof, heard,
                   sent, now, start, buf, dle_stx_idx, r>>

OpCalled(name) == pc = "op" /\ op.name = name
OpResumed(name) == pc = "returned" /\ op.name = name

read_internal_word ==
    /\ OpCalled("read_internal_word")
    /\ CallRunUnite(<<slave_address,
           _build_addressing_query(client, READ_INTERNAL_WORD, op.args[1])>>)
    /\ UNCHANGED <<op, client, socket, inbound, eof, heard, sent, now,
                   start, buf, dle_stx_idx, r>>

read_internal_word_resp ==
    /\ OpResumed("read_internal_word")
    /\ LET resp == result.value
       IN  OpEnds(IF ~is_valid_response_code(READ_INTERNAL_WORD, At(resp, 0))
                  THEN UnexpectedUniteResponse(
                           get_response_code(READ_INTERNAL_WORD), At(resp, 0))
                  ELSE Return(parse_read_word_result(From(resp, 1))))

write_internal_word ==
    /\ OpCalled("write_internal_word")
    /\ CallRunUnite(<<slave_address,
           _build_addressing_query(client, WRITE_INTERNAL_WORD, op.args[1])
               \o ToBytes2Signed(op.args[2])>>)
    /\ UNCHANGED <<op, client, socket, inbound, eof, heard, sent, now,
                   start, buf, dle_stx_idx, r>>

write_internal_word_resp ==
    /\ OpResumed("write_internal_word")
    /\ LET resp == result.value
       IN  OpEnds(IF ~is_valid_response_code(WRITE_INTERNAL_WORD, At(resp, 0))
                  THEN UnexpectedUniteResponse(
                           get_response_code(WRITE_INTERNAL_WORD), At(resp, 0))
                  ELSE Return(parse_write_result(resp)))

\* _read_objects up to its call of run_unite.
_read_objects(segment, obj_type, start_address, number) ==
    CallRunUnite(<<slave_address,
        <<READ_OBJECTS, client.category_code, segment, obj_type>>
            \o ToBytes2(start_address) \o ToBytes2(number)>>)

\* _read_objects after run_unite returned resp.
_read_objects_resp(resp) ==
    IF ~is_valid_response_code(READ_OBJECTS, At(resp, 0))
    THEN UnexpectedUniteResponse(get_response_code(READ_OBJECTS), At(resp, 0))
    ELSE Return(resp)

\* Mutant of the guard: every number of bits is accepted.
BadNumber_Never(number) == FALSE

\* number % 8 != 0
BadNumber(number) == number % 8 # 0

\* The body shared by read_internal_bits (obj_type 0x05, with forcing) and
\* read_system_bits (obj_type 0x06, no forcing), up to the call of run_unite.
read_bits(obj_type, start_address, number) ==
    IF BadNumber(number)
    THEN /\ result' = Raise("BadReadBitsNumberParam", <<number>>)
         /\ pc' = "raised"
         /\ UNCHANGED <<query, timeout>>
    ELSE _read_objects(100, obj_type, start_address, number)

\* The same body after _read_objects got resp from run_unite.
read_bits_resp(obj_type, start_address, number, resp, has_forcing) ==
    LET res == _read_objects_resp(resp)
    IN  IF res.err # "none" THEN res
        ELSE parse_read_bits_result(obj_type, start_address, number,
                                    From(res.value, 1), has_forcing)

read_internal_bits ==
    /\ OpCalled("read_internal_bits")
    /\ read_bits(5, op.args[1], op.args[2])
    /\ UNCHANGED <<op, client, socket, inbound, eof, heard, sent, now,
                   start, buf, dle_stx_idx, r>>

read_internal_bits_resp ==
    /\ OpResumed("read_internal_bits")
    /\ OpEnds(read_bits_resp(5, op.args[1], op.args[2], result.value, TRUE))

read_system_bits ==
    /\ OpCalled("read_system_bits")
    /\ read_bits(6, op.args[1], op.args[2])
    /\ UNCHANGED <<op, client, socket, inbound, eof, heard, sent, now,
                   start, buf, dle_stx_idx, r>>

read_system_bits_resp ==
    /\ OpResumed("read_system_bits")
    /\ OpEnds(read_bits_resp(6, op.args[1], op.args[2], result.value, FALSE))

\* read_io_channel(xway_channel_address, obj_type, number, start_address)
read_io_channel ==
    /\ OpCalled("read_io_channel")
    /\ CallRunUnite(<< <<READ_IO_CHANNEL, client.category_code>>
           \o op.args[1] \o <<1, op.args[2], op.args[3], op.args[4]>> >>)
    /\ UNCHANGED <<op, client, socket, inbound, eof, heard, sent, now,
                   start, buf, dle_stx_idx, r>>

\* The signed words of write_io_channel, two bytes each.
RECURSIVE WordsBytes(_)
WordsBytes(words_values) ==
    IF words_values = <<>> THEN <<>>
    ELSE ToBytes2Signed(Head(words_values)) \o WordsBytes(Tail(words_values))

\* write_io_channel(xway_channel_address, obj_type, start_address, number,
\*                  bits_values, words_values)
write_io_channel ==
    /\ OpCalled("write_io_channel")
    /\ CallRunUnite(<< <<WRITE_IO_CHANNEL, client.category_code>>
           \o op.args[1] \o <<1, op.args[2], 0>>
           \o ToBytes2(op.args[4]) \o ToBytes2(op.args[3])
           \o <<Len(op.args[5])>> \o op.args[5]
           \o ToBytes2(Len(op.args[6])) \o WordsBytes(op.args[6]) >>)
    /\ UNCHANGED <<op, client, socket, inbound, eof, heard, sent, now,
                   start, buf, dle_stx_idx, r>>

\* The operations called, with their arguments.
OpCalls ==
    {[name |-> "read_internal_word", args |-> <<10>>],
     [name |-> "write_internal_word", args |-> <<10, -2>>],
     [name |-> "read_io_channel", args |-> <<<<0, 1>>, 1, 2, 0>>],
     [name |-> "write_io_channel", args |-> <<<<0, 1>>, 1, 0, 2, <<1>>, <<3>>>>]}
    \cup {[name |-> n, args |-> <<8, k>>] :
              n \in {"read_internal_bits", "read_system_bits"},
              k \in {8, 12}}

\* UNI-TE responses of the peer.
OpResponses ==
    {<<52, 44, 1>>, <<52, 255, 255>>, <<53, 0, 0>>, <<254>>, <<UNITE_FAILED>>,
     <<102, 5, 165, 1>>, <<102, 6, 165, 1>>, <<102, 5, 165>>}

\* Frames of the peer: data or refusal, the last byte intact or damaged.
OpFrames(self) ==
    {PeerReply(self, 32, unite) : unite \in OpResponses}
    \cup {PeerReply(self, XWAY_REFUSED, <<52, 44, 1>>)}
    \cup {LET f == PeerReply(self, 32, <<52, 44, 1>>)
          IN  ButLast(f) \o <<(f[Len(f)] + 1) % 256>>}

\* The answer [0xFE] with the poll of another station after its DLE STX.
PolledFrame(self) ==
    <<DLE, STX>> \o PollToken(OtherAddress)
    \o From(PeerReply(self, 32, <<254>>), 2)

\* The peer polls us and answers, at once or after polling another station,
\* or goes silent after the first two bytes of its answer, or polls another
\* station between these two bytes and the rest.
OpStreams(self) ==
    {PollToken(self.link_address) \o f : f \in OpFrames(self)}
    \cup {PollToken(self.link_address) \o <<DLE, STX>>}
    \cup {PollToken(self.link_address) \o PolledFrame(self)}
    \cup {PollToken(self.link_address) \o PollToken(OtherAddress)
              \o PollToken(self.link_address) \o f : f \in OpFrames(self)}

OpsInit ==
    /\ op \in OpCalls
    /\ client \in {NewClient(3, 0, 0, 0, 0, 0, 0, vpn) : vpn \in BOOLEAN}
    /\ socket = "open"
    /\ query = <<>>
    /\ timeout = TIMEOUT_SEC
    /\ inbound \in OpStreams(client)
    /\ eof = FALSE
    /\ heard = <<>>
    /\ sent = <<>>
    /\ now = 0
    /\ start = 0
    /\ buf = <<>>
    /\ dle_stx_idx = -1
    /\ r = None
    /\ result = NoResult
    /\ pc = "op"

OpsNext ==
    \/ read_internal_word
    \/ read_internal_word_resp
    \/ write_internal_word
    \/ write_internal_word_resp
    \/ read_internal_bits
    \/ read_internal_bits_resp
    \/ read_system_bits
    \/ read_system_bits_resp
    \/ read_io_channel
    \/ write_io_channel
    \/ Next

SpecOps == OpsInit /\ [][OpsNext]_vars

(***************************************************************************)
(* The pure functions of utils.py and conversion.py applied to inputs      *)
(* drawn from bounded sets, and write_internal_word up to its call of      *)
(* run_unite for every signed 16-bit value.                                *)
(***************************************************************************)
MaxList == 4            \* longest list searched by sublist_in_list
MaxData == 5            \* most data bytes of a multi-word response
MaxIoBits == 1          \* most bits of a %I or %Q section
MaxWords == 2           \* most words of a %IW or %QW section
MaxStuffed == 6         \* longest list stuffed and unstuffed

\* Lists and sublists of the turn and frame searches.
SearchLists == SeqsUpTo({DLE, ENQ, 3}, MaxList)
SearchSublists == {<<DLE>>, <<DLE, ENQ>>, <<DLE, STX>>, <<DLE, ENQ, 3>>}

\* READ_OBJECTS responses without their response code: the object type
\* (0x07 words, 0x08 double words), then the data.
WordResponses ==
    {<<>>} \cup {<<type>> \o data : type \in {7, 8},
                                  data \in SeqsUpTo({1, 255}, MaxData)}

\* The "specific operation" zone the peer builds from the four sections:
\* its length, %I and %Q (length, one byte per bit), %IW and %QW (2-byte
\* little-endian length, 2 bytes per signed word).
OperationZone(i, q, iw, qw) ==
    LET sections == <<Len(i)>> \o i \o <<Len(q)>> \o q
                    \o ToBytes2(Len(iw)) \o WordsBytes(iw)
                    \o ToBytes2(Len(qw)) \o WordsBytes(qw)
    IN  <<Len(sections)>> \o sections

IoBitSections == SeqsUpTo({0, 1}, MaxIoBits)
IoWordSections == SeqsUpTo({5, -1}, MaxWords)

OperationZones ==
    {OperationZone(i, q, iw, qw) : i \in IoBitSections, q \in IoBitSections,
                                   iw \in IoWordSections,
                                   qw \in IoWordSections}

Words16 == -32768..32767

SublistCalls ==
    {[name |-> "sublist_in_list", args |-> <<l, sl>>] :
         l \in SearchLists, sl \in SearchSublists}

WordsResultCalls ==
    {[name |-> "parse_read_words_result", args |-> <<7, n, b>>] :
         n \in {2, 4}, b \in WordResponses}

OperationZoneCalls ==
    {[name |-> "_parse_operation_zone", args |-> <<a, z>>] :
         a \in {0, 4}, z \in OperationZones}

WriteWordCalls ==
    {[name |-> "write_internal_word", args |-> <<10, v>>] : v \in Words16}

\* Lists of at least three bytes, with 0x10 at any position.
StuffLists == {b \in SeqsUpTo({DLE, STX, 3}, MaxStuffed) : Len(b) >= 3}

StuffCalls == {[name |-> "duplicate_dle", args |-> <<b, 3>>] : b \in StuffLists}

PureInit ==
    /\ \/ op \in SublistCalls
       \/ op \in StuffCalls
       \/ op \in WordsResultCalls
       \/ op \in OperationZoneCalls
       \/ op \in WriteWordCalls
    /\ client = NewClient(3, 0, 0, 0, 0, 0, 0, FALSE)
    /\ socket = "open"
    /\ query = <<>>
    /\ timeout = TIMEOUT_SEC
    /\ inbound = <<>>
    /\ eof = FALSE
    /\ heard = <<>>
    /\ sent = <<>>
    /\ now = 0
    /\ start = 0
    /\ buf = <<>>
    /\ dle_stx_idx = -1
    /\ r = None
    /\ result = NoResult
    /\ pc = IF op.name = "write_internal_word" THEN "op" ELSE "pure_start"

\* The function named by op has been applied to its arguments.
PureDone(res) ==
    /\ result' = res
    /\ pc' = "pure_done"
    /\ UNCHANGED <<op, client, socket, query, timeout, inbound, eof, heard,
                   sent, now, start, buf, dle_stx_idx, r>>

CallSublistInList ==
    /\ pc = "pure_start"
    /\ op.name = "sublist_in_list"
    /\ PureDone(Return(sublist_in_list(op.args[1], op.args[2])))

CallParseReadWordsResult ==
    /\ pc = "pure_start"
    /\ op.name = "parse_read_words_result"
    /\ PureDone(parse_read_words_result(op.args[1], op.args[2], op.args[3]))

CallParseOperationZone ==
    /\ pc = "pure_start"
    /\ op.name = "_parse_operation_zone"
    /\ PureDone(_parse_operation_zone(op.args[1], op.args[2]))

\* duplicate_dle(unitelway, start_index) modifies the list it is given;
\* buf is that list.
CallDuplicateDle ==
    /\ pc = "pure_start"
    /\ op.name = "duplicate_dle"
    /\ buf' = duplicate_dle(op.args[1], op.args[2])
    /\ pc' = "stuffed"
    /\ UNCHANGED <<op, client, socket, query, timeout, inbound, eof, heard,
                   sent, now, start, dle_stx_idx, r, result>>

\* delete_dle applied to the list duplicate_dle has modified.
CallDeleteDle ==
    /\ pc = "stuffed"
    /\ PureDone(Return(delete_dle(buf)))

PureNext ==
    \/ CallSublistInList
    \/ CallDuplicateDle
    \/ CallDeleteDle
    \/ CallParseReadWordsResult
    \/ CallParseOperationZone
    \/ write_internal_word

SpecPure == PureInit /\ [][PureNext]_vars

(***************************************************************************)
(* A session: operations called one after another on the same client,      *)
(* with connect_socket and disconnect_socket called between them.          *)
(***************************************************************************)
\* The calls of a session.
SessionCalls ==
    {[name |-> "read_internal_word", args |-> <<10>>],
     [name |-> "write_internal_word", args |-> <<10, -2>>],
     [name |-> "disconnect_socket", args |-> <<>>]}

\* The peer of a connection polls us and answers a word read, then polls us
\* and answers a write.
SessionStream(self) ==
    PollToken(self.link_address) \o PeerReply(self, 32, <<52, 44, 1>>)
    \o PollToken(self.link_address) \o PeerReply(self, 32, <<254>>)

SessionInit ==
    /\ op \in SessionCalls
    /\ client \in {NewClient(3, 0, 0, 0, 0, 0, 0, vpn) : vpn \in BOOLEAN}
    /\ socket = "open"
    /\ query = <<>>
    /\ timeout = TIMEOUT_SEC
    /\ inbound = SessionStream(client)
    /\ eof = FALSE
    /\ heard = <<>>
    /\ sent = <<>>
    /\ now = 0
    /\ start = 0
    /\ buf = <<>>
    /\ dle_stx_idx = -1
    /\ r = None
    /\ result = NoResult
    /\ pc = "op"

\* No operation is running: the last one returned or raised.
Idle == pc \in {"op_returned", "raised"}

\* The caller calls the next operation on the same client.
NextOperation ==
    /\ Idle
    /\ op' \in SessionCalls
    /\ result' = NoResult
    /\ pc' = "op"
    /\ UNCHANGED <<client, socket, query, timeout, inbound, eof, heard,
                   sent, now, start, buf, dle_stx_idx, r>>

\* connect_socket(ip, port): a new socket, connected to the peer.
connect_socket ==
    /\ Idle
    /\ Len(sent) < MaxSends
    /\ socket' = "open"
    /\ inbound' = SessionStream(client)
    /\ eof' = FALSE
    /\ heard' = <<>>
    /\ UNCHANGED <<op, client, query, timeout, sent, now, start, buf,
                   dle_stx_idx, r, result, pc>>

\* disconnect_socket(): socket.close() inside try/except; returns None.
DisconnectSocket ==
    /\ OpCalled("disconnect_socket")
    /\ socket' = disconnect_socket(socket)
    /\ result' = Return(None)
    /\ pc' = "op_returned"
    /\ UNCHANGED <<op, client, query, timeout, inbound, eof, heard, sent,
                   now, start, buf, dle_stx_idx, r>>

\* recv or send on a closed socket raises OSError(EBADF), which nothing in
\* the client catches.
ClosedSocket ==
    /\ pc \in {"turn", "send", "wait", "wait_addr", "tail"}
    /\ ~Usable(socket)
    /\ result' = Raise("OSError", <<9>>)
    /\ pc' = "raised"
    /\ UNCHANGED <<op, client, socket, query, timeout, inbound, eof, heard,
                   sent, now, start, buf, dle_stx_idx, r>>

SessionNext ==
    \/ NextOperation
    \/ connect_socket
    \/ DisconnectSocket
    \/ ClosedSocket
    \/ read_internal_word
    \/ read_internal_word_resp
    \/ write_internal_word
    \/ write_internal_word_resp
    \/ Next

SpecSession == SessionInit /\ [][SessionNext]_vars

(***************************************************************************)
(* Properties.                                                             *)
(***************************************************************************)
\* t occurs in s as a contiguous run.
Contains(s, t) ==
    \E i \in 0..(Len(s) - Len(t)) : SubSeq(s, i + 1, i + Len(t)) = t

StartsWith(s, t) == Len(s) >= Len(t) /\ SubSeq(s, 1, Len(t)) = t

MyPoll == PollToken(client.link_address)
MyFrameStart == FrameStart(client.link_address)

\* A step that writes a frame to the transport.
Transmits == Len(sent') > Len(sent)

\* A step of the reply wait that is a recv (not the clock, not the peer).
WaitIteration ==
    /\ pc \in {"wait", "wait_addr"}
    /\ now' = now
    /\ eof' = eof

\* C1: in non-VPN mode every write of a request frame happens after the
\* token [DLE, ENQ, slave_address] was read from the transport since the
\* previous write (or since the start of the call).
C1_SendOnlyAfterOwnPoll ==
    [][(~client.VPN_Mode /\ Transmits) => Contains(heard, MyPoll)]_vars

\* C1 witness: a second request frame has been written in non-VPN mode.
C1_Witness == ~client.VPN_Mode /\ Len(sent) = 2 /\ pc = "wait"

\* The stream of C2: two polls of another station, the own poll, a frame.
C2Polls(self) ==
    PollToken(OtherAddress) \o PollToken(OtherAddress)
    \o PollToken(self.link_address)

C2Stream(self) == C2Polls(self) \o PeerFrame(self, <<254>>)

\* C2: on the stream [poll X, poll Y, own poll, frame] the non-VPN client
\* transmits exactly after the third poll (the three polls read, the frame
\* still to come), and once the reply wait has the whole frame before it
\* the wait ends with a buffer that starts at DLE, STX, my_addr of the frame.
C2_PollFiltering ==
    /\ [][(/\ ~client.VPN_Mode
           /\ Transmits
           /\ sent = <<>>
           /\ heard \o inbound = C2Stream(client))
          => (heard = C2Polls(client)
              /\ inbound = PeerFrame(client, <<254>>))]_vars
    /\ [](( /\ ~client.VPN_Mode
            /\ Len(sent) = 1
            /\ timeout > now - start
            /\ heard \o inbound = PeerFrame(client, <<254>>)
            /\ inbound = <<>>)
          => (pc \in {"got", "returned"} /\ StartsWith(r, MyFrameStart)
              /\ r = heard))

\* b holds a frame start of another station at index i.
ForeignStartAt(b, i) ==
    /\ Len(b) >= i + 3
    /\ At(b, i) = DLE
    /\ At(b, i + 1) = STX
    /\ At(b, i + 2) # client.link_address

\* C3: while awaiting the response, a frame start [DLE, STX, X] of another
\* station is discarded (its three bytes leave the buffer) and the scan
\* goes on, so a later [DLE, STX, my_address] is still detected: the wait
\* is over once the stream with the own frame has been read.
C3_ForeignFrameStartDiscarded ==
    /\ [][(/\ pc = "wait_addr"
           /\ WaitIteration
           /\ pc' \in {"wait", "loop"})
          => (/\ ~ForeignStartAt(buf', dle_stx_idx)
              /\ Len(buf') = Len(buf) + (Len(heard') - Len(heard)) - 3)]_vars
    /\ [](( /\ inbound = <<>>
            /\ heard = FrameStart(OtherAddress) \o PeerFrame(client, <<254>>))
          => pc \notin {"wait", "wait_addr"})

NoDle(s) == \A i \in 1..Len(s) : s[i] # DLE

\* The frame received is the frame built, and nothing else.
LoopedBack == pc = "codec_done" /\ r = sent[1]

\* C4: for every UNI-TE payload P without a 0x10 byte (P not empty, first
\* byte not 0xFD), decoding the frame built from P returns P.
C4_RoundTripWithoutDle ==
    (LoopedBack /\ NoDle(query) /\ query[1] # UNITE_FAILED)
    => result = Return(query)

\* C5: for every UNI-TE payload P with 0x10 bytes at any positions (P not
\* empty, first byte not 0xFD), decoding the frame built from P returns P.
C5_RoundTripWithDle ==
    (LoopedBack /\ ~NoDle(query) /\ query[1] # UNITE_FAILED)
    => result = Return(query)

\* C6: in non-VPN mode an iteration of the reply wait that ends without the
\* own frame start and with the timeout reached ends the attempt with no
\* response; the client then waits for its poll token again, and every
\* frame it writes is the same as the first.
C6_TimeoutResends ==
    /\ [][(/\ ~client.VPN_Mode
           /\ WaitIteration
           /\ now - start >= timeout
           /\ pc' \notin {"wait_addr", "tail", "raised"})
          => (pc' = "loop" /\ r' = None /\ sent' = sent)]_vars
    /\ [][(~client.VPN_Mode /\ pc = "loop" /\ pc' # pc)
          => (pc' = "turn" /\ buf' = <<>> /\ sent' = sent)]_vars
    /\ [](\A i \in 1..Len(sent) : sent[i] = sent[1])

\* C6 witness: a positive timeout was reached and the frame written again.
C6_Witness ==
    /\ ~client.VPN_Mode
    /\ timeout > 0
    /\ Len(sent) = 2
    /\ start >= timeout

\* C7: in VPN mode the request frame is written before anything is read:
\* the turn is never awaited and nothing was heard before the first write.
C7_VpnSendsFirst ==
    client.VPN_Mode =>
        /\ pc # "turn"
        /\ (sent = <<>> => (heard = <<>> /\ pc \in {"call", "loop", "send"}))

\* C7 witness: in VPN mode the frame was written, then bytes were read.
C7_Witness == client.VPN_Mode /\ Len(sent) = 1 /\ heard # <<>>

C9_ClosedOnReturn == pc = "returned" => socket = "closed"

\* C9 witness: run_unite returned the UNI-TE response [0xFE].
C9_Witness == pc = "returned" /\ result = Return(<<254>>)

\* C10: decoding a frame whose last byte, after the truncation to the wire
\* length, is not the sum modulo 256 of the bytes before it fails with
\* BadUnitelwayChecksum carrying the expected and the received checksum.
C10_BadChecksumRaised ==
    LET kept == keep_response_bytes(r)
    IN  (pc = "codec_done" /\ kept # <<-1>> /\ ~check_unitelway(kept))
        => /\ result.err = "BadUnitelwayChecksum"
           /\ result.value = <<>>
           /\ Len(result.args) = 2
           /\ {result.args[1], result.args[2]}
                = {compute_bcc(ButLast(kept)), kept[Len(kept)]}

\* r starts with the well-formed frame of X-WAY type type that carries the
\* UNI-TE bytes of query.
ReceivedReply(type) ==
    pc = "codec_done" /\ StartsWith(r, PeerReply(client, type, query))

\* C12: decoding a frame with a valid BCC whose X-WAY type byte is 0x22
\* fails with RefusedUnitelwayMessage, whatever the bytes that follow.
C12_RefusedRaised ==
    ReceivedReply(XWAY_REFUSED) => result.err = "RefusedUnitelwayMessage"

\* C13: decoding a frame with a valid BCC, an X-WAY type byte other than
\* 0x22 and a first UNI-TE byte 0xFD fails with UniteRequestFailed.
C13_RequestFailedRaised ==
    (ReceivedReply(32) /\ query[1] = UNITE_FAILED)
    => result.err = "UniteRequestFailed"

\* s with each of its DLE bytes written twice.
RECURSIVE Doubled(_)
Doubled(s) ==
    IF s = <<>> THEN <<>>
    ELSE (IF s[1] = DLE THEN <<DLE, DLE>> ELSE <<s[1]>>) \o Doubled(Tail(s))

\* The X-WAY message of the request: header and UNI-TE bytes.
XwayOfQuery == client.xway_start \o query

\* C18: a built frame is DLE, STX, link address, each once, then the X-WAY
\* length and the X-WAY bytes with every 0x10 of them written twice, then
\* one byte; with an X-WAY length of 0x10 offsets 3 and 4 hold 0x10.
C18_StuffingOfLengthAndPayload ==
    pc # "codec_start" =>
        /\ ButLast(sent[1])
             = <<DLE, STX, client.link_address>>
               \o Doubled(<<Len(XwayOfQuery)>> \o XwayOfQuery)
        /\ (Len(XwayOfQuery) = DLE =>
               (At(sent[1], 3) = DLE /\ At(sent[1], 4) = DLE
                /\ At(sent[1], 5) = At(XwayOfQuery, 0)))

\* C18 witness: a frame was built for link address 0x10 with an X-WAY
\* length of 0x10 and a 0x10 byte in the payload.
C18_Witness ==
    /\ pc = "codec_built"
    /\ client.link_address = DLE
    /\ Len(XwayOfQuery) = DLE
    /\ ~NoDle(query)

\* C19: the last byte of a built frame is the sum modulo 256 of all the
\* wire bytes before it (the stuffed form), so the frame passes
\* check_unitelway.
C19_BccOfStuffedFrame ==
    pc # "codec_start" =>
        /\ sent[1][Len(sent[1])] = Sum(ButLast(sent[1])) % 256
        /\ check_unitelway(sent[1])

\* C19 witness: a frame with doubled bytes whose sum exceeds one byte.
C19_Witness ==
    /\ pc = "codec_built"
    /\ Len(sent[1]) > Len(XwayOfQuery) + 5
    /\ Sum(ButLast(sent[1])) > 255

\* s is a run of whole polls [DLE, ENQ, X].
PollsOnly(s) ==
    /\ Len(s) % 3 = 0
    /\ \A j \in 0..((Len(s) \div 3) - 1) :
          At(s, 3 * j) = DLE /\ At(s, 3 * j + 1) = ENQ

\* C16: in the reply wait, once the bytes read since the request are whole
\* polls and nothing else, the receive buffer is empty, however the reads
\* split them; and when polls were followed by the own frame, the buffer
\* handed to the decoder is what was read after the polls.
C16_PollsRemovedWhole ==
    /\ (pc = "wait" /\ sent # <<>> /\ PollsOnly(heard)) => buf = <<>>
    /\ pc = "got" =>
          \A k \in 0..(Len(heard) \div 3) :
             (/\ PollsOnly(SubSeq(heard, 1, 3 * k))
              /\ StartsWith(From(heard, 3 * k), MyFrameStart))
             => r = From(heard, 3 * k)

\* Bit n of a byte, by division.
BitOf(byte, n) == (byte \div (2 ^ n)) % 2 = 1

\* The first address of the group of 8 that holds address a.
GroupStart(a) == 8 * (a \div 8)

\* C17: parsing a single-bit read response gives a map on the 8 addresses
\* from 8*floor(a/8); the value of address k is bit (k mod 8) of the first
\* byte and, with forcing, its forcing is bit (k mod 8) of the second
\* byte; the value and forcing returned are those of address a.
C17_BitLayout ==
    (pc = "bits_done" /\ Len(op.args[2]) >= (IF op.args[3] THEN 2 ELSE 1)) =>
        LET a == op.args[1]
            bytes == op.args[2]
            forcing == op.args[3]
            res == result.value
            map == res[Len(res)]
        IN  /\ result.err = "none"
            /\ DOMAIN map = GroupStart(a)..(GroupStart(a) + 7)
            /\ \A k \in DOMAIN map :
                  map[k] = IF forcing
                           THEN <<BitOf(bytes[1], k % 8), BitOf(bytes[2], k % 8)>>
                           ELSE BitOf(bytes[1], k % 8)
            /\ res = IF forcing
                      THEN <<map[a][1], map[a][2], map>>
                      ELSE <<map[a], map>>
            /\ (a = 255 /\ bytes = <<128, 64>> /\ forcing) =>
                  (res[1] = TRUE /\ res[2] = FALSE /\ DOMAIN map = 248..255)

\* C17 witness: address 255 with the bytes 0x80, 0x40 was parsed as an
\* internal bit.
C17_Witness ==
    /\ pc = "bits_done"
    /\ op.args = <<255, <<128, 64>>, TRUE>>
    /\ result.err = "none"

IoChannelOps == {"read_io_channel", "write_io_channel"}

\* C20: once read_io_channel or write_io_channel has been called with valid
\* arguments, the engine holds one READ_IO_CHANNEL / WRITE_IO_CHANNEL request
\* (the call did not end before handing the request over).
C20_IoChannelRequestHanded ==
    (op.name \in IoChannelOps /\ pc # "op")
        => /\ query # <<>>
           /\ query[1] \in {READ_IO_CHANNEL, WRITE_IO_CHANNEL}
           /\ result.err # "TypeError"

ReadBitsOps == {"read_internal_bits", "read_system_bits"}

\* C15: read_internal_bits and read_system_bits called with a number of bits
\* that is not a multiple of 8 end with BadReadBitsNumberParam(number), and
\* nothing has been read from or written to the transport, which stays open
\* with every byte of the peer still queued.
C15_BadNumberRejectedBeforeIO ==
    (op.name \in ReadBitsOps /\ op.args[2] % 8 # 0 /\ pc # "op")
        => /\ pc = "raised"
           /\ result = Raise("BadReadBitsNumberParam", <<op.args[2]>>)
           /\ socket = "open"
           /\ sent = <<>>
           /\ heard = <<>>
           /\ buf = <<>>
           /\ inbound \in OpStreams(client)

C15_Witness ==
    /\ op.name = "read_system_bits"
    /\ op.args[2] = 12
    /\ pc = "raised"
    /\ result.err = "BadReadBitsNumberParam"
    /\ inbound # <<>>

\* The response code each operation expects: 0x34 for READ_INTERNAL_WORD,
\* 0xFE for WRITE_INTERNAL_WORD, request code + 0x30 for READ_OBJECTS.
ExpectedCode ==
    CASE op.name = "read_internal_word" -> 52
      [] op.name = "write_internal_word" -> 254
      [] op.name \in ReadBitsOps -> READ_OBJECTS + 48

C11_NoRetryAfterDecodeError ==
    [][/\ (pc = "got" /\ pc' # "got")
          => /\ result' = unwrap_unite_response(r)
             /\ pc' = (IF result'.err = "none" THEN "returned" ELSE "raised")
       /\ pc \in {"got", "raised"}
          => /\ sent' = sent
             /\ inbound' = inbound
             /\ heard' = heard
             /\ pc' # "raised" => pc = "got"
       /\ (Transmits /\ sent # <<>>)
          => /\ ~client.VPN_Mode
             /\ now - start >= timeout
             /\ result = NoResult
             /\ r = None]_vars

C11_Witness ==
    /\ pc = "raised"
    /\ result.err \in {"RefusedUnitelwayMessage", "UniteRequestFailed",
                       "TypeError"}
    /\ Len(sent) = 2
    /\ r # None

\* C26: for a well-formed frame followed by any received bytes, the length
\* walk returns the number of wire bytes of the frame with its BCC, and
\* keep_response_bytes returns the frame and nothing else.
C26_LengthWalkExact ==
    ReceivedReply(32)
        => LET frame == PeerReply(client, 32, query)
           IN  /\ compute_response_length(r) = Len(frame)
               /\ keep_response_bytes(r) = frame

\* C30: a well-formed frame whose BCC is 0x10 (payload without 0x10, length
\* byte not 0x10, nothing received after it) decodes to all its UNI-TE bytes.
C30_BccValueIrrelevant ==
    (/\ LoopedBack
     /\ r[Len(r)] = DLE
     /\ NoDle(query)
     /\ At(r, 3) # DLE
     /\ query[1] # UNITE_FAILED)
        => result = Return(query)

\* The function name has been applied to the arguments of op.
Applied(name) == pc = "pure_done" /\ op.name = name

\* The indices at which sublist occurs as a contiguous run in list.
Occurrences(list, sublist) ==
    {i \in 0..(Len(list) - Len(sublist)) :
        SubSeq(list, i + 1, i + Len(sublist)) = sublist}

\* C27: sublist_in_list returns (True, i) with i the smallest index at which
\* sublist occurs in list when there is one, and (False, -1) otherwise.
C27_FirstMatchScan ==
    Applied("sublist_in_list")
        => LET found == Occurrences(op.args[1], op.args[2])
           IN  result = Return(IF found = {} THEN <<FALSE, -1>>
                               ELSE <<TRUE, CHOOSE i \in found :
                                                \A j \in found : i <= j>>)

\* C28: when the data of a multi-word response (after the matching object
\* type byte) has a length that is not a multiple of the object size, the
\* parse ends with an error and returns no list of values.
C28_ShortTailIsError ==
    (/\ Applied("parse_read_words_result")
     /\ op.args[3] # <<>>
     /\ op.args[3][1] = op.args[1]
     /\ (Len(op.args[3]) - 1) % op.args[2] # 0)
        => result.err # "none"

\* C29: when the object type echoed at the start of a READ_OBJECTS response
\* differs from the requested type (data follows the type byte), the parse
\* raises UnexpectedObjectTypeResponse(requested type, echoed type).
C29_EchoedTypeReported ==
    (/\ Applied("parse_read_words_result")
     /\ Len(op.args[3]) >= 2
     /\ op.args[3][1] # op.args[1])
        => result = Raise("UnexpectedObjectTypeResponse",
                          <<op.args[1], op.args[3][1]>>)

\* The words of a section as the map from address to value.
WordMap(start_address, words) ==
    [k \in start_address..(start_address + Len(words) - 1) |->
        words[k - start_address + 1]]

\* C21: parsing the zone built from the sections %I, %Q, %IW, %QW gives an
\* IW map with exactly the IW words and a QW map with exactly the QW words
\* (a section of length 0 has no map).
C21_WordSectionsInOrder ==
    Applied("_parse_operation_zone")
        => \A i \in IoBitSections, q \in IoBitSections,
              iw \in IoWordSections, qw \in IoWordSections :
              op.args[2] = OperationZone(i, q, iw, qw)
                  => /\ result.err = "none"
                     /\ "IW" \in DOMAIN result.value <=> iw # <<>>
                     /\ "QW" \in DOMAIN result.value <=> qw # <<>>
                     /\ iw # <<>>
                        => result.value["IW"] = WordMap(op.args[1], iw)
                     /\ qw # <<>>
                        => result.value["QW"] = WordMap(op.args[1], qw)

\* C24: for every signed 16-bit value v, the request write_internal_word
\* hands to run_unite is [code, category, address low, address high] and
\* the two bytes of v in little-endian two's complement, and decoding these
\* two bytes as a word-read response gives v (-1 is FF FF, 300 is 2C 01).
C24_WordRoundTrip ==
    (op.name = "write_internal_word" /\ pc = "call")
        => LET address == op.args[1]
               v == op.args[2]
           IN  /\ Len(query) = 6
               /\ SubSeq(query, 1, 4)
                    = <<WRITE_INTERNAL_WORD, client.category_code,
                        address % 256, address \div 256>>
               /\ query[5] \in 0..255
               /\ query[6] \in 0..255
               /\ query[5] + 256 * query[6] = (v + 65536) % 65536
               /\ parse_read_word_result(SubSeq(query, 5, 6)) = v
               /\ v = -1 => SubSeq(query, 5, 6) = <<255, 255>>
               /\ v = 300 => SubSeq(query, 5, 6) = <<44, 1>>

C24_Witness ==
    /\ op.name = "write_internal_word"
    /\ op.args = <<10, -32768>>
    /\ pc = "call"
    /\ query = <<WRITE_INTERNAL_WORD, 0, 10, 0, 0, 128>>

\* C25: a frame is written only by the step that follows the turn (the loop
\* head in VPN mode, the read that found the own poll otherwise) and that
\* step writes the request frame once and starts the reply wait; no step of
\* the turn wait or of the reply wait writes anything.
C25_FrameWrittenOncePerAttempt ==
    [][/\ Transmits
          => /\ pc = "send"
             /\ pc' = "wait"
             /\ sent' = Append(sent, _unite_to_unitelway(client, query))
       /\ (pc = "send" /\ pc' # "send") => Transmits
       /\ (pc # "send" /\ pc' = "send")
          => IF client.VPN_Mode THEN pc = "loop"
             ELSE pc = "turn" /\ Contains(buf', MyPoll)
       /\ pc \in {"turn", "wait", "wait_addr", "tail", "got"}
          => sent' = sent]_vars

\* C25 witness: the second attempt wrote the same frame once more and its
\* reply wait delivered a buffer.
C25_Witness == Len(sent) = 2 /\ sent[1] = sent[2] /\ pc = "got"

EngineRunning ==
    pc \in {"call", "loop", "turn", "send", "wait", "wait_addr", "tail"}

\* C23: run_unite returns with the transport closed, and while the transport
\* is closed (no connect_socket since) no frame is written and no byte is
\* read, and an operation that entered the engine can only end by raising
\* OSError.
C23_EachOperationNeedsConnect ==
    [][/\ pc = "returned" => socket = "closed"
       /\ (socket = "closed" /\ socket' = "closed")
          => /\ sent' = sent
             /\ inbound' = inbound
             /\ heard' = heard
       /\ (socket = "closed" /\ EngineRunning /\ ~EngineRunning')
          => /\ pc' = "raised"
             /\ result' = Raise("OSError", <<9>>)]_vars

\* C23 witness: after one operation that sent its request and got its
\* response, a second one failed with OSError while the peer's next poll and
\* response were still queued.
C23_Witness ==
    /\ op.name = "write_internal_word"
    /\ pc = "raised"
    /\ result.err = "OSError"
    /\ socket = "closed"
    /\ Len(sent) = 1
    /\ Contains(sent[1], <<READ_INTERNAL_WORD, 0, 10, 0>>)
    /\ inbound # <<>>


\* C31: run_unite closes the transport before it decodes: once a response
\* buffer has been delivered and the step that decodes it is taken, the
\* transport is closed, whether the decoder returned bytes or raised (bad
\* checksum, refused message, request failed); the transport is closed by
\* nothing else, and a call that has ended with the transport open ended
\* without a buffer, on the error of a read from a connection the peer
\* closed or before run_unite was entered.
C31_ClosedBeforeDecode ==
    /\ (r # None /\ pc # "got") => socket = "closed"
    /\ socket = "closed" => (r # None /\ pc \notin {"tail", "got"})
    /\ (pc \in {"returned", "op_returned", "raised"} /\ socket = "open")
          => /\ pc = "raised"
             /\ r = None
             /\ \/ result.err = "IndexError" /\ eof /\ sent # <<>>
                \/ sent = <<>> /\ heard = <<>>

\* C31 witness: run_unite ended with the decoder's RefusedUnitelwayMessage
\* and the transport is closed.
C31_Witness ==
    /\ pc = "raised"
    /\ r # None
    /\ result.err = "RefusedUnitelwayMessage"
    /\ socket = "closed"

C33_BufferIsSliceOfStream ==
    r # None => (StartsWith(r, MyFrameStart) /\ Contains(heard, r))

\* C34: the engine does not correlate responses with requests.  In the
\* reply wait the byte after a detected DLE STX is compared with the link
\* address and with nothing else: if it is equal the frame start is taken,
\* whatever was sent and however often; the buffer delivered is what was
\* read from that frame start on, and run_unite ends with what the decoder
\* makes of it.  So a reply that arrives after a timeout and a re-send is
\* delivered as the response of the second attempt.
C34_NoCorrelation ==
    [][/\ (pc = "wait_addr" /\ WaitIteration
           /\ Len(buf') > dle_stx_idx + 2)
          => /\ (At(buf', dle_stx_idx + 2) = client.link_address)
                   => pc' = "tail"
             /\ (At(buf', dle_stx_idx + 2) # client.link_address)
                   => pc' \in {"wait", "loop"}
       /\ (pc = "tail" /\ pc' = "got")
          => /\ r' = From(buf, dle_stx_idx)
                        \o SubSeq(heard', Len(heard) + 1, Len(heard'))
             /\ StartsWith(r', MyFrameStart)
       /\ (pc = "got" /\ pc' # "got")
          => result' = unwrap_unite_response(r)]_vars

\* C34 witness: the request was written a second time after a timeout, and
\* the frame that then arrived was delivered and decoded as its response.
C34_Witness ==
    /\ ~client.VPN_Mode
    /\ Len(sent) = 2
    /\ pc = "returned"
    /\ r = PeerReply(client, 32, <<254>>)
    /\ result = Return(<<254>>)

DlesFrom3(b) == Cardinality({i \in 3..(Len(b) - 1) : At(b, i) = DLE})

\* C37: unstuffing inverts stuffing.  For every byte list b of at least
\* three bytes, delete_dle applied to the list duplicate_dle(b, 3) has
\* made returns b; the stuffed list has the first three bytes of b
\* unchanged and one more byte for each 0x10 of b from offset 3.
C37_UnstuffInvertsStuff ==
    Applied("duplicate_dle") =>
        LET b == op.args[1]
        IN  /\ result = Return(b)
            /\ Slice(buf, 0, 3) = Slice(b, 0, 3)
            /\ Len(buf) = Len(b) + DlesFrom3(b)
            /\ Slice(result.value, 0, 3) = Slice(buf, 0, 3)

\* C37 witness: a list with 0x10 among its first three bytes, twice in a
\* row after them and as its last byte has been stuffed and unstuffed.
C37_Witness ==
    /\ Applied("duplicate_dle")
    /\ op.args[1] = <<DLE, STX, DLE, 3, DLE, DLE>>
    /\ buf = <<DLE, STX, DLE, 3, DLE, DLE, DLE, DLE>>
    /\ result = Return(<<DLE, STX, DLE, 3, DLE, DLE>>)
====
